---- MODULE Spec2Model ----
(***************************************************************************)
(* ListingIQ deal evaluation and reverse offer-pricing engine.             *)
(*                                                                         *)
(* Numbers.  The Python code computes in binary floating point.  Here a    *)
(* real number x is the integer floor(x * Scale) ("mills": thousandths of  *)
(* a dollar, of a percent point or of a ratio), so round(x, 2) really      *)
(* rounds (to a multiple of 10 mills).  A rate such as 0.07 is kept in     *)
(* basis points (x * RateDen).  float("inf") is the value Inf, above every *)
(* finite value the model can produce.  None is the empty tuple and a      *)
(* supplied optional value v is the one-element tuple <<v>>.               *)
(***************************************************************************)
EXTENDS Integers, Sequences, FiniteSets, TLC

Scale == 10 * 10 * 10
RateDen == 100 * 100
Inf == 2^30 + (2^30 - 1)
RatioCap == 10^9
PowScale == 10^7

None == << >>
Some(v) == <<v>>
Dollars(d) == d * Scale

(***************************************************************************)
(* Fixed-point helpers (Python float arithmetic).                          *)
(***************************************************************************)
Max(a, b) == IF a >= b THEN a ELSE b
Min(a, b) == IF a <= b THEN a ELSE b

\* floor(a * b / c) for b >= 0 and c > 0 with (c - 1) * b inside 32 bits: the
\* float product a * (b / c) of an amount and a rate.
MulDiv(a, b, c) == (a \div c) * b + ((a % c) * b) \div c

\* floor(a * b / PowScale) for a >= 0 and 0 <= b < 10^8, by four-digit limbs
\* so that no intermediate value leaves 32 bits.
MulPow(a, b) ==
    LET limb == 10^4
        a1 == a \div PowScale
        a0 == a % PowScale
        x1 == a0 \div limb
        x0 == a0 % limb
        b1 == b \div limb
        b0 == b % limb
    IN  a1 * b + x1 * b1 * 10
        + (x1 * b0 + x0 * b1 + (x0 * b0) \div limb) \div (10 * 10 * 10)

\* k more decimal digits of a quotient q with remainder r, divisor d < 2 * 10^8.
RECURSIVE QuotDigits(_, _, _, _)
QuotDigits(q, r, d, k) ==
    IF k = 0 THEN q
    ELSE QuotDigits(q * 10 + (r * 10) \div d, (r * 10) % d, d, k - 1)

\* floor(n * 10^k / d) for d > 0: the float quotient n / d with k decimal
\* digits.  A divisor of 2 * 10^8 or more is first divided, with n, by 4.  A
\* quotient beyond RatioCap is held at RatioCap: it stays above every
\* threshold and target it is compared with, and below Inf.
Ratio(n, d, k) ==
    LET big == d >= 2 * 10^8
        nn == IF big THEN n \div 4 ELSE n
        dd == IF big THEN d \div 4 ELSE d
        q == nn \div dd
    IN  IF q >= RatioCap \div 10^k THEN RatioCap
        ELSE IF q < -(RatioCap \div 10^k) THEN -RatioCap
        ELSE QuotDigits(q, nn % dd, dd, k)

\* n / d * 100 and n / d in mills.
Percent(n, d) == Ratio(n, d, 5)
Quotient(n, d) == Ratio(n, d, 3)

\* Python round(x, ndigits) on a float: to the nearest multiple of u mills
\* (u = 10 for 2 digits, 100 for 1, 1000 for 0), ties to even; inf stays inf.
Round(x, u) ==
    IF x = Inf THEN Inf
    ELSE LET q == x \div u
             r == x % u
         IN  IF 2 * r < u THEN q * u
             ELSE IF 2 * r > u THEN (q + 1) * u
             ELSE IF q % 2 = 0 THEN q * u ELSE (q + 1) * u

Round2(x) == Round(x, 10)
Round1(x) == Round(x, 100)
Round0(x) == Round(x, Scale)

\* x ** n for a fixed-point x (unit PowScale), by squaring.
RECURSIVE FixPow(_, _)
FixPow(x, n) ==
    IF n = 0 THEN PowScale
    ELSE LET h  == FixPow(x, n \div 2)
             sq == MulPow(h, h)
         IN  IF n % 2 = 1 THEN MulPow(sq, x) ELSE sq

\* dict.get(key, default)
Get(m, k, default) == IF k \in DOMAIN m THEN m[k] ELSE default

(***************************************************************************)
(* Configuration defaults (config.py).  Rates in basis points, money in    *)
(* dollars.                                                                *)
(***************************************************************************)
brrr_max_purchase_pct_of_arv == 7000
brrr_rehab_cost_per_sqft == 30
brrr_refinance_ltv == 7500
brrr_min_cash_on_cash_return == 8
brrr_monthly_holding_cost == 1500
brrr_rehab_months == 4
brrr_default_rehab_cost == 25000
brrr_fallback_tax_rate == 120

cf_down_payment_pct == 2000
cf_interest_rate == 700
cf_loan_term_years == 30
cf_rent_estimate_pct == 80
cf_vacancy_rate == 500
cf_management_fee_pct == 1000
cf_maintenance_pct == 100
cf_annual_insurance == 1800
cf_min_monthly_cash_flow == 200
cf_min_cap_rate == 6
cf_fallback_tax_rate == 120

flip_max_purchase_pct_of_arv == 6500
flip_min_profit == 30000
flip_selling_cost_pct == 800
flip_monthly_holding_cost == 2000
flip_project_months == 6
flip_rehab_per_sqft == 35
flip_default_rehab_cost == 30000

offer_cash_flow_target_monthly == 200
offer_cash_flow_target_coc == 8
offer_brrr_target_coc == 10
offer_flip_target_profit == 30000
offer_max_iterations == 50
offer_price_tolerance == 500
offer_search_floor == 1000

DefaultStrategies == <<"brrr", "cash_flow", "flip">>

\* DealStrategy(value): the enum's values; any other string raises ValueError.
DealStrategy == {"brrr", "cash_flow", "flip"}

(***************************************************************************)
(* Cash-Flow analyzer (analysis/cashflow.py).                              *)
(***************************************************************************)
CF_monthly_payment(principal, annual_rate, years) ==
    IF principal <= 0 \/ annual_rate <= 0 THEN 0
    ELSE LET monthly_rate == (annual_rate * (PowScale \div RateDen)) \div 12
             num_payments == years * 12
             growth == FixPow(PowScale + monthly_rate, num_payments)
             \* principal * monthly_rate * growth / (growth - 1)
             interest == MulPow(principal, monthly_rate)
         IN  interest + MulPow(interest, Ratio(PowScale, growth - PowScale, 7))

\* (1 + monthly_rate) ** num_payments - 1, the divisor of the payment.
CF_payment_divisor(annual_rate, years) ==
    LET monthly_rate == (annual_rate * (PowScale \div RateDen)) \div 12
        num_payments == years * 12
    IN  FixPow(PowScale + monthly_rate, num_payments) - PowScale

\* The float division raises ZeroDivisionError on a zero divisor.
CF_monthly_payment_raises(principal, annual_rate, years) ==
    /\ ~(principal <= 0 \/ annual_rate <= 0)
    /\ CF_payment_divisor(annual_rate, years) = 0

\* dscr with 0 in place of infinity for a zero debt service.
CF_dscr_zero_fallback(noi, annual_debt_service) ==
    IF annual_debt_service > 0 THEN Quotient(noi, annual_debt_service) ELSE 0

\* noi / annual_debt_service if annual_debt_service > 0 else float("inf")
CF_dscr(noi, annual_debt_service) ==
    IF annual_debt_service > 0 THEN Quotient(noi, annual_debt_service) ELSE Inf

\* The ratio with 0 in place of infinity when there is no rent.
CF_grm_zero_fallback(purchase_price, annual_rent) ==
    IF annual_rent > 0 THEN Quotient(purchase_price, annual_rent) ELSE 0

\* purchase_price / annual_rent if annual_rent > 0 else float("inf")
CF_grm(purchase_price, annual_rent) ==
    IF annual_rent > 0 THEN Quotient(purchase_price, annual_rent) ELSE Inf

\* rent_estimate if rent_estimate is not None else purchase_price * rent_estimate_pct
CF_monthly_rent(purchase_price, rent_estimate) ==
    IF rent_estimate # None THEN rent_estimate[1]
    ELSE MulDiv(purchase_price, cf_rent_estimate_pct, RateDen)

CF_calculate_metrics(listing, rent_estimate) ==
    LET purchase_price == listing.price
        down_payment == MulDiv(purchase_price, cf_down_payment_pct, RateDen)
        loan_amount == purchase_price - down_payment
        monthly_mortgage ==
            CF_monthly_payment(loan_amount, cf_interest_rate, cf_loan_term_years)
        monthly_rent == CF_monthly_rent(purchase_price, rent_estimate)
        effective_rent == MulDiv(monthly_rent, RateDen - cf_vacancy_rate, RateDen)
        monthly_tax ==
            IF listing.tax_annual # 0 THEN listing.tax_annual \div 12
            ELSE MulDiv(purchase_price, cf_fallback_tax_rate, RateDen) \div 12
        monthly_insurance == Dollars(cf_annual_insurance) \div 12
        monthly_maintenance ==
            MulDiv(purchase_price, cf_maintenance_pct, RateDen) \div 12
        monthly_management == MulDiv(monthly_rent, cf_management_fee_pct, RateDen)
        monthly_hoa == listing.hoa_monthly
        total_monthly_expenses ==
            monthly_mortgage + monthly_tax + monthly_insurance
            + monthly_maintenance + monthly_management + monthly_hoa
        monthly_cash_flow == effective_rent - total_monthly_expenses
        annual_cash_flow == monthly_cash_flow * 12
        annual_gross_income == monthly_rent * 12
        annual_vacancy_loss == MulDiv(annual_gross_income, cf_vacancy_rate, RateDen)
        annual_operating_expenses ==
            (monthly_tax + monthly_insurance + monthly_maintenance
             + monthly_management + monthly_hoa) * 12
        noi == annual_gross_income - annual_vacancy_loss - annual_operating_expenses
        cap_rate ==
            IF purchase_price > 0 THEN Percent(noi, purchase_price) ELSE 0
        total_cash_invested == down_payment
        cash_on_cash ==
            IF total_cash_invested > 0
            THEN Percent(annual_cash_flow, total_cash_invested) ELSE 0
        annual_debt_service == monthly_mortgage * 12
        dscr == CF_dscr(noi, annual_debt_service)
        annual_rent == monthly_rent * 12
        grm == CF_grm(purchase_price, annual_rent)
    IN  [purchase_price |-> purchase_price,
         down_payment |-> Round2(down_payment),
         loan_amount |-> Round2(loan_amount),
         monthly_mortgage |-> Round2(monthly_mortgage),
         monthly_rent_estimate |-> Round2(monthly_rent),
         effective_rent |-> Round2(effective_rent),
         monthly_expenses |-> Round2(total_monthly_expenses),
         monthly_cash_flow |-> Round2(monthly_cash_flow),
         annual_cash_flow |-> Round2(annual_cash_flow),
         cap_rate |-> Round2(cap_rate),
         cash_on_cash_return |-> Round2(cash_on_cash),
         noi |-> Round2(noi),
         dscr |-> Round2(dscr),
         grm |-> Round2(grm)]

\* A scoring that also takes points off for a negative cash flow.
CF_score_penalised(m) ==
    LET cash_flow_pts ==
            IF m.monthly_cash_flow >= Dollars(500) THEN 35
            ELSE IF m.monthly_cash_flow >= Dollars(300) THEN 25
            ELSE IF m.monthly_cash_flow >= Dollars(200) THEN 18
            ELSE IF m.monthly_cash_flow >= Dollars(100) THEN 10
            ELSE IF m.monthly_cash_flow > 0 THEN 5
            ELSE IF m.monthly_cash_flow < 0 THEN 0 - 10 ELSE 0
        cap_rate_pts ==
            IF m.cap_rate >= 10 * Scale THEN 25
            ELSE IF m.cap_rate >= 8 * Scale THEN 20
            ELSE IF m.cap_rate >= 6 * Scale THEN 15
            ELSE IF m.cap_rate >= 4 * Scale THEN 8 ELSE 0
        score == (cash_flow_pts + cap_rate_pts) * Scale
    IN  Min(100 * Scale, Round1(score))

\* The score with no points for an infinite dscr.
CF_score_finite_only(m) ==
    LET cash_flow_pts ==
            IF m.monthly_cash_flow >= Dollars(500) THEN 35
            ELSE IF m.monthly_cash_flow >= Dollars(300) THEN 25
            ELSE IF m.monthly_cash_flow >= Dollars(200) THEN 18
            ELSE IF m.monthly_cash_flow >= Dollars(100) THEN 10
            ELSE IF m.monthly_cash_flow > 0 THEN 5 ELSE 0
        cap_rate_pts ==
            IF m.cap_rate >= 10 * Scale THEN 25
            ELSE IF m.cap_rate >= 8 * Scale THEN 20
            ELSE IF m.cap_rate >= 6 * Scale THEN 15
            ELSE IF m.cap_rate >= 4 * Scale THEN 8 ELSE 0
        coc_pts ==
            IF m.cash_on_cash_return >= 15 * Scale THEN 20
            ELSE IF m.cash_on_cash_return >= 10 * Scale THEN 15
            ELSE IF m.cash_on_cash_return >= 8 * Scale THEN 10
            ELSE IF m.cash_on_cash_return >= 5 * Scale THEN 5 ELSE 0
        dscr_pts ==
            IF m.dscr = Inf THEN 0
            ELSE IF m.dscr >= (3 * Scale) \div 2 THEN 10
            ELSE IF m.dscr >= (5 * Scale) \div 4 THEN 7
            ELSE IF m.dscr >= Scale THEN 3 ELSE 0
        grm_pts ==
            IF m.grm <= 8 * Scale THEN 10
            ELSE IF m.grm <= 10 * Scale THEN 7
            ELSE IF m.grm <= 12 * Scale THEN 4 ELSE 0
        score == (cash_flow_pts + cap_rate_pts + coc_pts + dscr_pts + grm_pts) * Scale
    IN  Min(100 * Scale, Round1(score))

CF_score(m) ==
    LET cash_flow_pts ==
            IF m.monthly_cash_flow >= Dollars(500) THEN 35
            ELSE IF m.monthly_cash_flow >= Dollars(300) THEN 25
            ELSE IF m.monthly_cash_flow >= Dollars(200) THEN 18
            ELSE IF m.monthly_cash_flow >= Dollars(100) THEN 10
            ELSE IF m.monthly_cash_flow > 0 THEN 5 ELSE 0
        cap_rate_pts ==
            IF m.cap_rate >= 10 * Scale THEN 25
            ELSE IF m.cap_rate >= 8 * Scale THEN 20
            ELSE IF m.cap_rate >= 6 * Scale THEN 15
            ELSE IF m.cap_rate >= 4 * Scale THEN 8 ELSE 0
        coc_pts ==
            IF m.cash_on_cash_return >= 15 * Scale THEN 20
            ELSE IF m.cash_on_cash_return >= 10 * Scale THEN 15
            ELSE IF m.cash_on_cash_return >= 8 * Scale THEN 10
            ELSE IF m.cash_on_cash_return >= 5 * Scale THEN 5 ELSE 0
        dscr_pts ==
            IF m.dscr >= (3 * Scale) \div 2 THEN 10
            ELSE IF m.dscr >= (5 * Scale) \div 4 THEN 7
            ELSE IF m.dscr >= Scale THEN 3 ELSE 0
        grm_pts ==
            IF m.grm <= 8 * Scale THEN 10
            ELSE IF m.grm <= 10 * Scale THEN 7
            ELSE IF m.grm <= 12 * Scale THEN 4 ELSE 0
        score == (cash_flow_pts + cap_rate_pts + coc_pts + dscr_pts + grm_pts) * Scale
    IN  Min(100 * Scale, Round1(score))

\* The criteria joined by "or" instead of "and".
CF_meets_criteria_either(m) ==
    \/ m.monthly_cash_flow >= Dollars(cf_min_monthly_cash_flow)
    \/ m.cap_rate >= cf_min_cap_rate * Scale

CF_meets_criteria(m) ==
    /\ m.monthly_cash_flow >= Dollars(cf_min_monthly_cash_flow)
    /\ m.cap_rate >= cf_min_cap_rate * Scale

CF_analyze(listing, rent_estimate) ==
    LET metrics == CF_calculate_metrics(listing, rent_estimate)
    IN  [listing |-> listing,
         strategy |-> "cash_flow",
         score |-> CF_score(metrics),
         metrics |-> metrics,
         meets_criteria |-> CF_meets_criteria(metrics)]

(***************************************************************************)
(* BRRR analyzer (analysis/brrr.py).                                       *)
(***************************************************************************)
\* The keyword parameters analyze() declares besides self.
BRRR_analyze_params == {"listing"}

BRRR_monthly_payment(principal, annual_rate, years) ==
    IF principal <= 0 \/ annual_rate <= 0 THEN 0
    ELSE LET monthly_rate == (annual_rate * (PowScale \div RateDen)) \div 12
             num_payments == years * 12
             growth == FixPow(PowScale + monthly_rate, num_payments)
             \* principal * monthly_rate * growth / (growth - 1)
             interest == MulPow(principal, monthly_rate)
         IN  interest + MulPow(interest, Ratio(PowScale, growth - PowScale, 7))

BRRR_payment_divisor(annual_rate, years) ==
    LET monthly_rate == (annual_rate * (PowScale \div RateDen)) \div 12
        num_payments == years * 12
    IN  FixPow(PowScale + monthly_rate, num_payments) - PowScale

BRRR_monthly_payment_raises(principal, annual_rate, years) ==
    /\ ~(principal <= 0 \/ annual_rate <= 0)
    /\ BRRR_payment_divisor(annual_rate, years) = 0

BRRR_estimated_arv(listing) ==
    MulDiv(listing.price, RateDen, brrr_max_purchase_pct_of_arv)

BRRR_rehab_cost(listing) ==
    IF listing.sqft # 0 THEN listing.sqft * Dollars(brrr_rehab_cost_per_sqft)
    ELSE Dollars(brrr_default_rehab_cost)

BRRR_total_investment(listing) ==
    listing.price + BRRR_rehab_cost(listing)
    + Dollars(brrr_monthly_holding_cost) * brrr_rehab_months

BRRR_refinance_amount(listing) ==
    MulDiv(BRRR_estimated_arv(listing), brrr_refinance_ltv, RateDen)

\* The return with 0 in place of infinity when no cash is left in the deal.
BRRR_cash_on_cash_no_inf(annual_cash_flow, cash_left_in_deal) ==
    IF cash_left_in_deal > 0
    THEN Percent(annual_cash_flow, cash_left_in_deal)
    ELSE 0

BRRR_cash_on_cash(annual_cash_flow, cash_left_in_deal) ==
    IF cash_left_in_deal > 0
    THEN Percent(annual_cash_flow, cash_left_in_deal)
    ELSE IF annual_cash_flow > 0 THEN Inf ELSE 0

BRRR_calculate_metrics(listing) ==
    LET purchase_price == listing.price
        estimated_arv == BRRR_estimated_arv(listing)
        rehab_cost == BRRR_rehab_cost(listing)
        holding_costs == Dollars(brrr_monthly_holding_cost) * brrr_rehab_months
        total_investment == BRRR_total_investment(listing)
        refinance_amount == BRRR_refinance_amount(listing)
        cash_left_in_deal == Max(total_investment - refinance_amount, 0)
        monthly_rent_arv == MulDiv(estimated_arv, cf_rent_estimate_pct, RateDen)
        monthly_mortgage ==
            BRRR_monthly_payment(refinance_amount, cf_interest_rate, cf_loan_term_years)
        monthly_tax ==
            IF listing.tax_annual # 0 THEN listing.tax_annual \div 12
            ELSE MulDiv(estimated_arv, brrr_fallback_tax_rate, RateDen) \div 12
        monthly_insurance == Dollars(cf_annual_insurance) \div 12
        monthly_maintenance ==
            MulDiv(estimated_arv, cf_maintenance_pct, RateDen) \div 12
        monthly_management ==
            MulDiv(monthly_rent_arv, cf_management_fee_pct, RateDen)
        vacancy_cost == MulDiv(monthly_rent_arv, cf_vacancy_rate, RateDen)
        monthly_hoa == listing.hoa_monthly
        monthly_expenses ==
            monthly_mortgage + monthly_tax + monthly_insurance
            + monthly_maintenance + monthly_management + vacancy_cost + monthly_hoa
        monthly_cash_flow == monthly_rent_arv - monthly_expenses
        annual_cash_flow == monthly_cash_flow * 12
        cash_on_cash == BRRR_cash_on_cash(annual_cash_flow, cash_left_in_deal)
        equity_captured == estimated_arv - refinance_amount
    IN  [purchase_price |-> purchase_price,
         estimated_arv |-> Round2(estimated_arv),
         rehab_cost |-> Round2(rehab_cost),
         total_investment |-> Round2(total_investment),
         holding_costs |-> Round2(holding_costs),
         refinance_amount |-> Round2(refinance_amount),
         cash_left_in_deal |-> Round2(cash_left_in_deal),
         monthly_rent_estimate |-> Round2(monthly_rent_arv),
         monthly_expenses |-> Round2(monthly_expenses),
         monthly_cash_flow |-> Round2(monthly_cash_flow),
         annual_cash_flow |-> Round2(annual_cash_flow),
         cash_on_cash_return |-> Round2(cash_on_cash),
         equity_captured |-> Round2(equity_captured)]

\* The score with no points for an infinite cash-on-cash return.
BRRR_score_finite_only(m) ==
    LET coc_pts ==
            IF m.cash_on_cash_return = Inf THEN 0
            ELSE IF m.cash_on_cash_return >= 25 * Scale THEN 40
            ELSE IF m.cash_on_cash_return >= 15 * Scale THEN 30
            ELSE IF m.cash_on_cash_return >= 10 * Scale THEN 20
            ELSE IF m.cash_on_cash_return >= 5 * Scale THEN 10 ELSE 0
        \* investment_recovery * 25
        recovery25 ==
            IF m.total_investment # 0
            THEN 25 * Scale - Percent(m.cash_left_in_deal, m.total_investment) \div 4
            ELSE 0
        recovery_pts == Max(0, Min(25 * Scale, recovery25))
        cash_flow_pts ==
            IF m.monthly_cash_flow >= Dollars(500) THEN 20
            ELSE IF m.monthly_cash_flow >= Dollars(300) THEN 15
            ELSE IF m.monthly_cash_flow >= Dollars(200) THEN 10
            ELSE IF m.monthly_cash_flow >= Dollars(100) THEN 5 ELSE 0
        equity_pts ==
            IF m.equity_captured >= Dollars(50000) THEN 15
            ELSE IF m.equity_captured >= Dollars(30000) THEN 10
            ELSE IF m.equity_captured >= Dollars(15000) THEN 5 ELSE 0
        score == (coc_pts + cash_flow_pts + equity_pts) * Scale + recovery_pts
    IN  Min(100 * Scale, Round1(score))

BRRR_score(m) ==
    LET coc_pts ==
            IF m.cash_on_cash_return >= 25 * Scale THEN 40
            ELSE IF m.cash_on_cash_return >= 15 * Scale THEN 30
            ELSE IF m.cash_on_cash_return >= 10 * Scale THEN 20
            ELSE IF m.cash_on_cash_return >= 5 * Scale THEN 10 ELSE 0
        \* investment_recovery * 25
        recovery25 ==
            IF m.total_investment # 0
            THEN 25 * Scale - Percent(m.cash_left_in_deal, m.total_investment) \div 4
            ELSE 0
        recovery_pts == Max(0, Min(25 * Scale, recovery25))
        cash_flow_pts ==
            IF m.monthly_cash_flow >= Dollars(500) THEN 20
            ELSE IF m.monthly_cash_flow >= Dollars(300) THEN 15
            ELSE IF m.monthly_cash_flow >= Dollars(200) THEN 10
            ELSE IF m.monthly_cash_flow >= Dollars(100) THEN 5 ELSE 0
        equity_pts ==
            IF m.equity_captured >= Dollars(50000) THEN 15
            ELSE IF m.equity_captured >= Dollars(30000) THEN 10
            ELSE IF m.equity_captured >= Dollars(15000) THEN 5 ELSE 0
        score == (coc_pts + cash_flow_pts + equity_pts) * Scale + recovery_pts
    IN  Min(100 * Scale, Round1(score))

BRRR_meets_criteria(m) ==
    /\ m.cash_on_cash_return >= brrr_min_cash_on_cash_return * Scale
    /\ m.monthly_cash_flow > 0

BRRR_analyze(listing) ==
    LET metrics == BRRR_calculate_metrics(listing)
    IN  [listing |-> listing,
         strategy |-> "brrr",
         score |-> BRRR_score(metrics),
         metrics |-> metrics,
         meets_criteria |-> BRRR_meets_criteria(metrics)]

(***************************************************************************)
(* Flip analyzer (analysis/flip.py).                                       *)
(***************************************************************************)
Flip_calculate_metrics(listing, arv_estimate) ==
    LET purchase_price == listing.price
        estimated_arv ==
            IF arv_estimate # None THEN arv_estimate[1]
            ELSE MulDiv(purchase_price, RateDen, flip_max_purchase_pct_of_arv)
        rehab_cost ==
            IF listing.sqft # 0 THEN listing.sqft * Dollars(flip_rehab_per_sqft)
            ELSE Dollars(flip_default_rehab_cost)
        holding_costs == Dollars(flip_monthly_holding_cost) * flip_project_months
        selling_costs == MulDiv(estimated_arv, flip_selling_cost_pct, RateDen)
        total_cost == purchase_price + rehab_cost + holding_costs + selling_costs
        estimated_profit == estimated_arv - total_cost
        roi ==
            IF purchase_price + rehab_cost > 0
            THEN Percent(estimated_profit, purchase_price + rehab_cost)
            ELSE 0
        profit_per_month ==
            IF flip_project_months > 0 THEN estimated_profit \div flip_project_months
            ELSE 0
    IN  [purchase_price |-> purchase_price,
         estimated_arv |-> Round2(estimated_arv),
         rehab_cost |-> Round2(rehab_cost),
         holding_costs |-> Round2(holding_costs),
         selling_costs |-> Round2(selling_costs),
         total_cost |-> Round2(total_cost),
         estimated_profit |-> Round2(estimated_profit),
         roi |-> Round2(roi),
         profit_per_month |-> Round2(profit_per_month)]

Flip_score(m) ==
    LET profit_pts ==
            IF m.estimated_profit >= Dollars(75000) THEN 40
            ELSE IF m.estimated_profit >= Dollars(50000) THEN 30
            ELSE IF m.estimated_profit >= Dollars(30000) THEN 20
            ELSE IF m.estimated_profit >= Dollars(15000) THEN 10 ELSE 0
        roi_pts ==
            IF m.roi >= 30 * Scale THEN 30
            ELSE IF m.roi >= 20 * Scale THEN 22
            ELSE IF m.roi >= 15 * Scale THEN 15
            ELSE IF m.roi >= 10 * Scale THEN 8 ELSE 0
        month_pts ==
            IF m.profit_per_month >= Dollars(10000) THEN 20
            ELSE IF m.profit_per_month >= Dollars(7000) THEN 15
            ELSE IF m.profit_per_month >= Dollars(5000) THEN 10
            ELSE IF m.profit_per_month >= Dollars(3000) THEN 5 ELSE 0
        spread == m.estimated_arv - m.purchase_price
        spread_pts ==
            IF spread >= Dollars(100000) THEN 10
            ELSE IF spread >= Dollars(75000) THEN 7
            ELSE IF spread >= Dollars(50000) THEN 4 ELSE 0
        score == (profit_pts + roi_pts + month_pts + spread_pts) * Scale
    IN  Min(100 * Scale, Round1(score))

Flip_meets_criteria(m) ==
    /\ m.estimated_profit >= Dollars(flip_min_profit)
    /\ m.roi > 0

Flip_analyze(listing, arv_estimate) ==
    LET metrics == Flip_calculate_metrics(listing, arv_estimate)
    IN  [listing |-> listing,
         strategy |-> "flip",
         score |-> Flip_score(metrics),
         metrics |-> metrics,
         meets_criteria |-> Flip_meets_criteria(metrics)]

(***************************************************************************)
(* Offer calculator (analysis/offer.py): the pieces of one call.           *)
(***************************************************************************)
\* A call f(listing, **kwargs) raises TypeError unless f declares every keyword.
AcceptsKeywords(params, kwargs) == kwargs \subseteq params

\* The keyword arguments of a call that passes the estimates it has.
SuppliedKeywords(rent, arv) ==
    (IF rent # None THEN {"rent_estimate"} ELSE {})
    \cup (IF arv # None THEN {"arv_estimate"} ELSE {})

\* `x or default` on an optional string: None and "" are both falsy.
OrDefault(x, default) == IF x = None \/ x[1] = "" THEN default ELSE x[1]

\* `x if x is not None else default`
IfNotNone(x, default) == IF x # None THEN x[1] ELSE default

\* A copy that takes the price and leaves the supplied tax behind.
WithPrice_without_tax(listing, price) ==
    [listing EXCEPT !.price = price, !.tax_annual = 0]

\* listing.model_copy(update={"price": price})
WithPrice(listing, price) == [listing EXCEPT !.price = price]

\* The discount as a fraction of the list price, not a percentage.
Discount_as_fraction(listing, price) ==
    IF listing.price > 0
    THEN Quotient(listing.price - price, listing.price) ELSE 0

Discount(listing, price) ==
    IF listing.price > 0
    THEN Percent(listing.price - price, listing.price) ELSE 0

\* low, high, best_price before the loop; iters counts the probes made.
SearchStart(listing) ==
    [low |-> Dollars(offer_search_floor),
     high |-> MulDiv(listing.price, 3, 2),
     best_price |-> Dollars(offer_search_floor),
     iters |-> 0]

\* The for loop ends: range(max_iterations) is used up, or the break is taken.
SearchExit(s) ==
    \/ s.iters >= offer_max_iterations
    \/ s.high - s.low < Dollars(offer_price_tolerance)

\* The loop body with its comparison turned around.
SearchUpdate_inverted(s, mid, current_value, target) ==
    IF current_value <= target
    THEN [s EXCEPT !.best_price = mid, !.low = mid, !.iters = @ + 1]
    ELSE [s EXCEPT !.high = mid, !.iters = @ + 1]

\* The loop body after the analyzer has returned current_value at mid.
SearchUpdate(s, mid, current_value, target) ==
    IF current_value >= target
    THEN [s EXCEPT !.best_price = mid, !.low = mid, !.iters = @ + 1]
    ELSE [s EXCEPT !.high = mid, !.iters = @ + 1]

SearchMid(s) == (s.low + s.high) \div 2

CF_offer_metric(target_metric) == OrDefault(target_metric, "monthly_cash_flow")

CF_offer_target(metric, target_value) ==
    IF metric = "monthly_cash_flow"
    THEN IfNotNone(target_value, Dollars(offer_cash_flow_target_monthly))
    ELSE IfNotNone(target_value, offer_cash_flow_target_coc * Scale)

CF_probe(listing, rent_estimate, metric, target, s) ==
    LET mid == SearchMid(s)
        deal == CF_analyze(WithPrice(listing, mid), rent_estimate)
    IN  SearchUpdate(s, mid, Get(deal.metrics, metric, 0), target)

CF_offer_result(listing, rent_estimate, metric, target, best_price) ==
    LET final_deal == CF_analyze(WithPrice(listing, best_price), rent_estimate)
    IN  [strategy |-> "cash_flow",
         target_metric |-> metric,
         target_value |-> target,
         max_offer_price |-> Round0(best_price),
         metrics_at_offer |-> final_deal.metrics,
         discount_from_list |-> Round1(Discount(listing, best_price))]

BRRR_offer_metric(target_metric) == OrDefault(target_metric, "cash_on_cash_return")

BRRR_offer_target(target_value) == IfNotNone(target_value, offer_brrr_target_coc * Scale)

\* analyze(listing, rent_estimate=..., arv_estimate=...) on the BRRR analyzer, as
\* both the offer calculator and the deal analyzer call it.
BRRR_call_raises ==
    ~AcceptsKeywords(BRRR_analyze_params, {"rent_estimate", "arv_estimate"})

BRRR_probe(listing, metric, target, s) ==
    LET mid == SearchMid(s)
        deal == BRRR_analyze(WithPrice(listing, mid))
    IN  SearchUpdate(s, mid, Get(deal.metrics, metric, 0), target)

BRRR_offer_result(listing, metric, target, best_price) ==
    LET final_deal == BRRR_analyze(WithPrice(listing, best_price))
    IN  [strategy |-> "brrr",
         target_metric |-> metric,
         target_value |-> target,
         max_offer_price |-> Round0(best_price),
         metrics_at_offer |-> final_deal.metrics,
         discount_from_list |-> Round1(Discount(listing, best_price))]

Flip_offer_arv(listing, arv_estimate) ==
    IF arv_estimate # None /\ arv_estimate[1] # 0 THEN arv_estimate[1]
    ELSE MulDiv(listing.price, RateDen, flip_max_purchase_pct_of_arv)

\* The solve with the configured minimum profit in place of the requested one.
Flip_max_offer_min_profit(listing, target_profit, arv_estimate) ==
    LET estimated_arv == Flip_offer_arv(listing, arv_estimate)
        rehab_cost ==
            IF listing.sqft # 0 THEN listing.sqft * Dollars(flip_rehab_per_sqft)
            ELSE Dollars(flip_default_rehab_cost)
        holding_costs == Dollars(flip_monthly_holding_cost) * flip_project_months
        selling_costs == MulDiv(estimated_arv, flip_selling_cost_pct, RateDen)
        max_offer ==
            estimated_arv - rehab_cost - holding_costs - selling_costs
                - Dollars(flip_min_profit)
    IN  Max(max_offer, 0)

\* The solve without the floor at 0.
Flip_max_offer_unfloored(listing, target_profit, arv_estimate) ==
    LET estimated_arv == Flip_offer_arv(listing, arv_estimate)
        rehab_cost ==
            IF listing.sqft # 0 THEN listing.sqft * Dollars(flip_rehab_per_sqft)
            ELSE Dollars(flip_default_rehab_cost)
        holding_costs == Dollars(flip_monthly_holding_cost) * flip_project_months
        selling_costs == MulDiv(estimated_arv, flip_selling_cost_pct, RateDen)
        max_offer ==
            estimated_arv - rehab_cost - holding_costs - selling_costs - target_profit
    IN  max_offer

Flip_max_offer(listing, target_profit, arv_estimate) ==
    LET estimated_arv == Flip_offer_arv(listing, arv_estimate)
        rehab_cost ==
            IF listing.sqft # 0 THEN listing.sqft * Dollars(flip_rehab_per_sqft)
            ELSE Dollars(flip_default_rehab_cost)
        holding_costs == Dollars(flip_monthly_holding_cost) * flip_project_months
        selling_costs == MulDiv(estimated_arv, flip_selling_cost_pct, RateDen)
        max_offer ==
            estimated_arv - rehab_cost - holding_costs - selling_costs - target_profit
    IN  Max(max_offer, 0)

calc_flip_offer(listing, target_metric, target_value, arv_estimate) ==
    LET metric == OrDefault(target_metric, "estimated_profit")
        target_profit == IfNotNone(target_value, Dollars(offer_flip_target_profit))
        max_offer == Flip_max_offer(listing, target_profit, arv_estimate)
        final_deal == Flip_analyze(WithPrice(listing, max_offer), arv_estimate)
    IN  [strategy |-> "flip",
         target_metric |-> metric,
         target_value |-> target_profit,
         max_offer_price |-> Round0(max_offer),
         metrics_at_offer |-> final_deal.metrics,
         discount_from_list |-> Round1(Discount(listing, max_offer))]

(***************************************************************************)
(* Offer calculator: whole calls, composed of the pieces above.            *)
(***************************************************************************)
RECURSIVE CF_search(_, _, _, _, _)
CF_search(listing, rent_estimate, metric, target, s) ==
    IF SearchExit(s) THEN s
    ELSE CF_search(listing, rent_estimate, metric, target,
                   CF_probe(listing, rent_estimate, metric, target, s))

calc_cashflow_offer(listing, target_metric, target_value, rent_estimate) ==
    LET metric == CF_offer_metric(target_metric)
        target == CF_offer_target(metric, target_value)
        s == CF_search(listing, rent_estimate, metric, target, SearchStart(listing))
    IN  CF_offer_result(listing, rent_estimate, metric, target, s.best_price)

RECURSIVE BRRR_search(_, _, _, _)
BRRR_search(listing, metric, target, s) ==
    IF SearchExit(s) THEN s
    ELSE BRRR_search(listing, metric, target, BRRR_probe(listing, metric, target, s))

calc_brrr_offer(listing, target_metric, target_value) ==
    LET metric == BRRR_offer_metric(target_metric)
        target == BRRR_offer_target(target_value)
        s == BRRR_search(listing, metric, target, SearchStart(listing))
    IN  BRRR_offer_result(listing, metric, target, s.best_price)

\* What one call raises ("none" when it returns) and returns.
calculate_offer_price(listing, strat, target_metric, target_value, rent, arv) ==
    IF strat \notin DealStrategy THEN [exc |-> "ValueError", result |-> None]
    ELSE IF strat = "cash_flow"
    THEN [exc |-> "none",
          result |-> Some(calc_cashflow_offer(listing, target_metric, target_value, rent))]
    ELSE IF strat = "brrr"
    THEN IF BRRR_call_raises THEN [exc |-> "TypeError", result |-> None]
         ELSE [exc |-> "none",
               result |-> Some(calc_brrr_offer(listing, target_metric, target_value))]
    ELSE [exc |-> "none",
          result |-> Some(calc_flip_offer(listing, target_metric, target_value, arv))]

(***************************************************************************)
(* Deal analyzer (analysis/engine.py): helpers.                            *)
(***************************************************************************)
Range(seq) == {seq[n] : n \in DOMAIN seq}

\* The keys of self._analyzers, in insertion order.
Analyzers(strats) ==
    SelectSeq(<<"brrr", "cash_flow", "flip">>, LAMBDA name : name \in Range(strats))

\* An insertion that puts a deal before the deals of equal score.
RECURSIVE InsertByScore_before_ties(_, _)
InsertByScore_before_ties(sorted, d) ==
    IF sorted = << >> THEN <<d>>
    ELSE IF Head(sorted).score > d.score
         THEN <<Head(sorted)>> \o InsertByScore_before_ties(Tail(sorted), d)
         ELSE <<d>> \o sorted

\* list.sort(key=score, reverse=True): stable, descending.
RECURSIVE InsertByScore(_, _)
InsertByScore(sorted, d) ==
    IF sorted = << >> THEN <<d>>
    ELSE IF Head(sorted).score >= d.score
         THEN <<Head(sorted)>> \o InsertByScore(Tail(sorted), d)
         ELSE <<d>> \o sorted

RECURSIVE SortByScoreDesc(_)
SortByScoreDesc(ds) ==
    IF ds = << >> THEN << >>
    ELSE InsertByScore(SortByScoreDesc(SubSeq(ds, 1, Len(ds) - 1)), ds[Len(ds)])

TopDeals(ds, minScore, lim) ==
    LET qualified == SelectSeq(ds, LAMBDA d : d.score >= minScore /\ d.meets_criteria)
        sorted == SortByScoreDesc(qualified)
    IN  SubSeq(sorted, 1, Min(lim, Len(sorted)))

(***************************************************************************)
(* Inputs of one run.                                                      *)
(***************************************************************************)
MaxBatch == 2
MaxLimit == 2

MkListing(id, price, sqft, tax, hoa) ==
    [source_id |-> id, price |-> Dollars(price), sqft |-> sqft,
     tax_annual |-> Dollars(tax), hoa_monthly |-> Dollars(hoa)]

ListingSet ==
    {MkListing("test", 200000, 1400, 3600, 0),
     MkListing("bare", 100000, 0, 0, 0),
     MkListing("cheap", 80000, 600, 1200, 0),
     MkListing("rich", 450000, 0, 1200, 0),
     MkListing("tiny", 600, 0, 0, 50),
     MkListing("zero", 0, 0, 0, 0),
     MkListing("penny", 20, 0, 0, 0)}

RentSet == {None, Some(0), Some(Dollars(1800)), Some(Dollars(2500))}
ArvSet == {None, Some(0), Some(Dollars(350000))}
StrategyArgSet == DealStrategy \cup {"wholesale"}
MetricSet ==
    {None, Some("monthly_cash_flow"), Some("cash_on_cash_return"), Some("grm"),
     Some("estimated_profit")}
ValueSet ==
    {None, Some(0), Some(8 * Scale), Some(Dollars(100)), Some(Dollars(500)),
     Some(Dollars(22027) + 400), Some(Dollars(60000)), Some(Dollars(279979) + 600)}
ConfigSet ==
    {DefaultStrategies, <<"cash_flow">>, <<"flip", "cash_flow">>,
     <<"cash_flow", "wholesale", "flip">>}
MinScoreSet == {0, 30 * Scale}

RECURSIVE SeqsUpTo(_, _)
SeqsUpTo(S, n) ==
    IF n = 0 THEN {<< >>}
    ELSE LET shorter == SeqsUpTo(S, n - 1)
         IN  shorter \cup {Append(q, x) : q \in {r \in shorter : Len(r) = n - 1}, x \in S}

\* The analyzers called directly see every combination of these fields.
AnalyzerPriceSet == {0, 600, 80000, 100000, 200000, 450000}
AnalyzerListingSet ==
    {MkListing("direct", price, sqft, tax, hoa) :
        price \in AnalyzerPriceSet,
        sqft \in {0, 600, 1400},
        tax \in {0, 1200, 3600},
        hoa \in {0, 50}}
\* principal in mills, annual_rate in basis points, years.
NoLoan == [principal |-> 0, annual_rate |-> 0, years |-> 0]
LoanSet ==
    {[principal |-> p, annual_rate |-> r, years |-> y] :
        p \in {Dollars(0 - 1000), 0, Dollars(800), Dollars(160000), Dollars(360000)},
        r \in {0 - 100, 0, 500, 700},
        y \in {0, 15, 30}}
BatchListingSet == {l \in ListingSet : l.source_id \in {"test", "bare", "cheap"}}
BatchSet == SeqsUpTo(BatchListingSet, MaxBatch)
EngineRentSet == {None, Some(Dollars(1800))}
EngineArvSet == {None, Some(Dollars(350000))}

OfferEntries == {"calculate_offer_price", "calculate_all_offers"}
AnalyzerEntries == {"BRRRAnalyzer.analyze", "CashFlowAnalyzer.analyze", "FlipAnalyzer.analyze"}
PaymentEntries == {"CashFlowAnalyzer._monthly_payment", "BRRRAnalyzer._monthly_payment"}
EngineEntries == {"analyze_listing", "analyze_listings", "get_top_deals"}

VARIABLES
    entry,          \* the public entry point called
    strategies,     \* config.strategies
    listings,       \* the listing(s) passed
    rent_estimate, arv_estimate,
    loan,           \* _monthly_payment arguments
    strategy, target_metric, target_value,  \* calculate_offer_price arguments
    min_score, limit,                       \* get_top_deals arguments
    pc,             \* position in the code
    call,           \* arguments of the running calculate_offer_price call
    metric, target, search,  \* locals of the running binary search
    offer,          \* what the running calculate_offer_price call returned
    exc,            \* the exception in flight, "none" when there is none
    k,              \* calculate_all_offers: index of strategy_name
    results,        \* calculate_all_offers: results
    li,             \* analyze_listings: index of listing
    ai,             \* analyze_listing: index of the analyzer
    deals,          \* analyze_listing: results
    all_deals,      \* analyze_listings: all_deals
    returned        \* the entry point's return value, once pc = "done"

inputs ==
    <<entry, strategies, listings, rent_estimate, arv_estimate, loan, strategy,
      target_metric, target_value, min_score, limit>>
offer_locals == <<call, metric, target, search, offer>>
batch_locals == <<k, results>>
engine_locals == <<li, ai, deals, all_deals>>
vars == <<inputs, pc, offer_locals, exc, batch_locals, engine_locals, returned>>

NoCall == [strategy |-> "", target_metric |-> None, target_value |-> None]
NoSearch == [low |-> 0, high |-> 0, best_price |-> 0, iters |-> 0]

InitLocals ==
    /\ pc = "call"
    /\ call = NoCall
    /\ metric = ""
    /\ target = 0
    /\ search = NoSearch
    /\ offer = None
    /\ exc = "none"
    /\ k = 0
    /\ results = << >>
    /\ li = 0
    /\ ai = 0
    /\ deals = << >>
    /\ all_deals = << >>
    /\ returned = None

InitOfferPrice ==
    /\ entry = "calculate_offer_price"
    /\ strategies = DefaultStrategies
    /\ \E l \in ListingSet : listings = <<l>>
    /\ rent_estimate \in RentSet
    /\ arv_estimate \in ArvSet
    /\ loan = NoLoan
    /\ strategy \in StrategyArgSet
    /\ target_metric \in MetricSet
    /\ target_value \in ValueSet
    /\ min_score = 0
    /\ limit = 0

InitAllOffers ==
    /\ entry = "calculate_all_offers"
    /\ strategies \in ConfigSet
    /\ \E l \in ListingSet : listings = <<l>>
    /\ rent_estimate \in RentSet
    /\ arv_estimate \in ArvSet
    /\ loan = NoLoan
    /\ strategy = ""
    /\ target_metric = None
    /\ target_value = None
    /\ min_score = 0
    /\ limit = 0

InitAnalyzer ==
    /\ entry \in AnalyzerEntries
    /\ strategies = DefaultStrategies
    /\ \E l \in AnalyzerListingSet : listings = <<l>>
    /\ rent_estimate \in RentSet
    /\ arv_estimate \in ArvSet
    /\ loan = NoLoan
    /\ strategy = ""
    /\ target_metric = None
    /\ target_value = None
    /\ min_score = 0
    /\ limit = 0

InitPayment ==
    /\ entry \in PaymentEntries
    /\ strategies = DefaultStrategies
    /\ listings = << >>
    /\ rent_estimate = None
    /\ arv_estimate = None
    /\ loan \in LoanSet
    /\ strategy = ""
    /\ target_metric = None
    /\ target_value = None
    /\ min_score = 0
    /\ limit = 0

InitEngine ==
    /\ entry \in EngineEntries
    /\ strategies \in ConfigSet
    /\ listings \in BatchSet
    /\ entry = "analyze_listing" => Len(listings) = 1
    /\ rent_estimate \in EngineRentSet
    /\ arv_estimate \in EngineArvSet
    /\ loan = NoLoan
    /\ strategy = ""
    /\ target_metric = None
    /\ target_value = None
    /\ IF entry = "get_top_deals"
       THEN min_score \in MinScoreSet /\ limit \in 0..MaxLimit
       ELSE min_score = 0 /\ limit = 0

Init ==
    /\ InitOfferPrice \/ InitAllOffers \/ InitAnalyzer \/ InitPayment \/ InitEngine
    /\ InitLocals

Listing == listings[1]

(***************************************************************************)
(* OfferCalculator.calculate_offer_price and the strategy it dispatches to *)
(***************************************************************************)
\* The caller invokes calculate_offer_price with its own arguments.
CalculateOfferPrice ==
    /\ pc = "call"
    /\ entry = "calculate_offer_price"
    /\ call' = [strategy |-> strategy, target_metric |-> target_metric,
                target_value |-> target_value]
    /\ pc' = "dispatch"
    /\ UNCHANGED <<inputs, metric, target, search, offer, exc, batch_locals,
                   engine_locals, returned>>

\* DealStrategy(strategy) raises ValueError for a string that is no member.
DispatchUnknown ==
    /\ pc = "dispatch"
    /\ call.strategy \notin DealStrategy
    /\ exc' = "ValueError"
    /\ pc' = "offer_exit"
    /\ UNCHANGED <<inputs, offer_locals, batch_locals, engine_locals, returned>>

CalcCashflowOfferStart ==
    /\ pc = "dispatch"
    /\ call.strategy = "cash_flow"
    /\ metric' = CF_offer_metric(call.target_metric)
    /\ target' = CF_offer_target(metric', call.target_value)
    /\ search' = SearchStart(Listing)
    /\ pc' = "cf_loop"
    /\ UNCHANGED <<inputs, call, offer, exc, batch_locals, engine_locals, returned>>

CalcCashflowOfferProbe ==
    /\ pc = "cf_loop"
    /\ ~SearchExit(search)
    /\ search' = CF_probe(Listing, rent_estimate, metric, target, search)
    /\ UNCHANGED <<inputs, pc, call, metric, target, offer, exc, batch_locals,
                   engine_locals, returned>>

CalcCashflowOfferFinal ==
    /\ pc = "cf_loop"
    /\ SearchExit(search)
    /\ offer' = Some(CF_offer_result(Listing, rent_estimate, metric, target,
                                     search.best_price))
    /\ pc' = "offer_exit"
    /\ UNCHANGED <<inputs, call, metric, target, search, exc, batch_locals,
                   engine_locals, returned>>

CalcBrrrOfferStart ==
    /\ pc = "dispatch"
    /\ call.strategy = "brrr"
    /\ metric' = BRRR_offer_metric(call.target_metric)
    /\ target' = BRRR_offer_target(call.target_value)
    /\ search' = SearchStart(Listing)
    /\ pc' = "brrr_loop"
    /\ UNCHANGED <<inputs, call, offer, exc, batch_locals, engine_locals, returned>>

CalcBrrrOfferProbe ==
    /\ pc = "brrr_loop"
    /\ ~SearchExit(search)
    /\ IF BRRR_call_raises
       THEN /\ exc' = "TypeError"
            /\ pc' = "offer_exit"
            /\ UNCHANGED search
       ELSE /\ search' = BRRR_probe(Listing, metric, target, search)
            /\ UNCHANGED <<pc, exc>>
    /\ UNCHANGED <<inputs, call, metric, target, offer, batch_locals,
                   engine_locals, returned>>

CalcBrrrOfferFinal ==
    /\ pc = "brrr_loop"
    /\ SearchExit(search)
    /\ IF BRRR_call_raises
       THEN /\ exc' = "TypeError"
            /\ UNCHANGED offer
       ELSE /\ offer' = Some(BRRR_offer_result(Listing, metric, target,
                                               search.best_price))
            /\ UNCHANGED exc
    /\ pc' = "offer_exit"
    /\ UNCHANGED <<inputs, call, metric, target, search, batch_locals,
                   engine_locals, returned>>

CalcFlipOffer ==
    /\ pc = "dispatch"
    /\ call.strategy = "flip"
    /\ offer' = Some(calc_flip_offer(Listing, call.target_metric, call.target_value,
                                     arv_estimate))
    /\ pc' = "offer_exit"
    /\ UNCHANGED <<inputs, call, metric, target, search, exc, batch_locals,
                   engine_locals, returned>>

\* calculate_offer_price returns to (or raises into) the outside caller.
OfferPriceExit ==
    /\ pc = "offer_exit"
    /\ entry = "calculate_offer_price"
    /\ returned' = offer
    /\ pc' = "done"
    /\ UNCHANGED <<inputs, offer_locals, exc, batch_locals, engine_locals>>

(***************************************************************************)
(* OfferCalculator.calculate_all_offers                                    *)
(***************************************************************************)
CalculateAllOffers ==
    /\ pc = "call"
    /\ entry = "calculate_all_offers"
    /\ results' = << >>
    /\ k' = 1
    /\ pc' = "all_loop"
    /\ UNCHANGED <<inputs, offer_locals, exc, engine_locals, returned>>

\* for strategy_name in self.config.strategies: try: calculate_offer_price(...)
AllOffersNext ==
    /\ pc = "all_loop"
    /\ k <= Len(strategies)
    /\ call' = [strategy |-> strategies[k], target_metric |-> None,
                target_value |-> None]
    /\ offer' = None
    /\ pc' = "dispatch"
    /\ UNCHANGED <<inputs, metric, target, search, exc, batch_locals,
                   engine_locals, returned>>

\* The loop body without its try/except: the exception leaves calculate_all_offers.
AllOffersCollectUnguarded ==
    /\ pc = "offer_exit"
    /\ entry = "calculate_all_offers"
    /\ IF exc = "none"
       THEN /\ results' = Append(results, offer[1])
            /\ k' = k + 1
            /\ pc' = "all_loop"
       ELSE /\ pc' = "done"
            /\ UNCHANGED <<k, results>>
    /\ UNCHANGED <<inputs, offer_locals, exc, engine_locals, returned>>

\* results.append(result), or except Exception: continue
AllOffersCollect ==
    /\ pc = "offer_exit"
    /\ entry = "calculate_all_offers"
    /\ results' = IF exc = "none" THEN Append(results, offer[1]) ELSE results
    /\ exc' = "none"
    /\ k' = k + 1
    /\ pc' = "all_loop"
    /\ UNCHANGED <<inputs, offer_locals, engine_locals, returned>>

AllOffersReturn ==
    /\ pc = "all_loop"
    /\ k > Len(strategies)
    /\ returned' = results
    /\ pc' = "done"
    /\ UNCHANGED <<inputs, offer_locals, exc, batch_locals, engine_locals>>

(***************************************************************************)
(* The analyzers called directly                                           *)
(***************************************************************************)
\* The caller passes the estimates it has as keyword arguments; BRRRAnalyzer.analyze
\* takes the listing alone, so a call with an estimate raises TypeError.
AnalyzeDirect ==
    /\ pc = "call"
    /\ entry \in AnalyzerEntries
    /\ IF entry = "BRRRAnalyzer.analyze"
          /\ ~AcceptsKeywords(BRRR_analyze_params,
                              SuppliedKeywords(rent_estimate, arv_estimate))
       THEN /\ exc' = "TypeError"
            /\ UNCHANGED returned
       ELSE /\ returned' =
                  IF entry = "BRRRAnalyzer.analyze" THEN <<BRRR_analyze(Listing)>>
                  ELSE IF entry = "CashFlowAnalyzer.analyze"
                       THEN <<CF_analyze(Listing, rent_estimate)>>
                       ELSE <<Flip_analyze(Listing, arv_estimate)>>
            /\ UNCHANGED exc
    /\ pc' = "done"
    /\ UNCHANGED <<inputs, offer_locals, batch_locals, engine_locals>>

(***************************************************************************)
(* _monthly_payment called directly                                        *)
(***************************************************************************)
MonthlyPayment ==
    /\ pc = "call"
    /\ entry \in PaymentEntries
    /\ LET raises ==
               IF entry = "CashFlowAnalyzer._monthly_payment"
               THEN CF_monthly_payment_raises(loan.principal, loan.annual_rate, loan.years)
               ELSE BRRR_monthly_payment_raises(loan.principal, loan.annual_rate, loan.years)
       IN  IF raises
           THEN /\ exc' = "ZeroDivisionError"
                /\ UNCHANGED returned
           ELSE /\ returned' =
                      IF entry = "CashFlowAnalyzer._monthly_payment"
                      THEN <<CF_monthly_payment(loan.principal, loan.annual_rate, loan.years)>>
                      ELSE <<BRRR_monthly_payment(loan.principal, loan.annual_rate, loan.years)>>
                /\ UNCHANGED exc
    /\ pc' = "done"
    /\ UNCHANGED <<inputs, offer_locals, batch_locals, engine_locals>>

(***************************************************************************)
(* DealAnalyzer.analyze_listing, analyze_listings, get_top_deals           *)
(***************************************************************************)
AnalyzeListing ==
    /\ pc = "call"
    /\ entry = "analyze_listing"
    /\ li' = 1
    /\ ai' = 1
    /\ deals' = << >>
    /\ pc' = "analyzers_loop"
    /\ UNCHANGED <<inputs, offer_locals, exc, batch_locals, all_deals, returned>>

\* analyze_listings, called directly or first thing by get_top_deals
AnalyzeListings ==
    /\ pc = "call"
    /\ entry \in {"analyze_listings", "get_top_deals"}
    /\ all_deals' = << >>
    /\ li' = 1
    /\ pc' = "listings_loop"
    /\ UNCHANGED <<inputs, offer_locals, exc, batch_locals, ai, deals, returned>>

\* for listing in listings: deals = self.analyze_listing(listing, ...)
ListingsNext ==
    /\ pc = "listings_loop"
    /\ li <= Len(listings)
    /\ ai' = 1
    /\ deals' = << >>
    /\ pc' = "analyzers_loop"
    /\ UNCHANGED <<inputs, offer_locals, exc, batch_locals, li, all_deals, returned>>

\* for name, analyzer in self._analyzers.items(): one call of analyzer.analyze;
\* an exception leaves analyze_listing and every caller above it.
AnalyzerCall ==
    /\ pc = "analyzers_loop"
    /\ ai <= Len(Analyzers(strategies))
    /\ LET name == Analyzers(strategies)[ai]
           listing == listings[li]
       IN  IF name = "brrr" /\ BRRR_call_raises
           THEN /\ exc' = "TypeError"
                /\ pc' = "done"
                /\ UNCHANGED <<ai, deals>>
           ELSE /\ deals' = Append(deals,
                      IF name = "brrr" THEN BRRR_analyze(listing)
                      ELSE IF name = "cash_flow" THEN CF_analyze(listing, rent_estimate)
                      ELSE Flip_analyze(listing, arv_estimate))
                /\ ai' = ai + 1
                /\ UNCHANGED <<pc, exc>>
    /\ UNCHANGED <<inputs, offer_locals, batch_locals, li, all_deals, returned>>

\* analyze_listing returns results: to the outside caller, or to analyze_listings
\* (all_deals.extend(deals)).
AnalyzeListingReturn ==
    /\ pc = "analyzers_loop"
    /\ ai > Len(Analyzers(strategies))
    /\ IF entry = "analyze_listing"
       THEN /\ returned' = deals
            /\ pc' = "done"
            /\ UNCHANGED <<li, all_deals>>
       ELSE /\ all_deals' = all_deals \o deals
            /\ li' = li + 1
            /\ pc' = "listings_loop"
            /\ UNCHANGED returned
    /\ UNCHANGED <<inputs, offer_locals, exc, batch_locals, ai, deals>>

AnalyzeListingsReturn ==
    /\ pc = "listings_loop"
    /\ li > Len(listings)
    /\ entry = "analyze_listings"
    /\ returned' = all_deals
    /\ pc' = "done"
    /\ UNCHANGED <<inputs, offer_locals, exc, batch_locals, engine_locals>>

\* get_top_deals: filter, sort, truncate what analyze_listings returned.
GetTopDeals ==
    /\ pc = "listings_loop"
    /\ li > Len(listings)
    /\ entry = "get_top_deals"
    /\ returned' = TopDeals(all_deals, min_score, limit)
    /\ pc' = "done"
    /\ UNCHANGED <<inputs, offer_locals, exc, batch_locals, engine_locals>>

Next ==
    \/ CalculateOfferPrice
    \/ DispatchUnknown
    \/ CalcCashflowOfferStart
    \/ CalcCashflowOfferProbe
    \/ CalcCashflowOfferFinal
    \/ CalcBrrrOfferStart
    \/ CalcBrrrOfferProbe
    \/ CalcBrrrOfferFinal
    \/ CalcFlipOffer
    \/ OfferPriceExit
    \/ CalculateAllOffers
    \/ AllOffersNext
    \/ AllOffersCollect
    \/ AllOffersReturn
    \/ AnalyzeDirect
    \/ MonthlyPayment
    \/ AnalyzeListing
    \/ AnalyzeListings
    \/ ListingsNext
    \/ AnalyzerCall
    \/ AnalyzeListingReturn
    \/ AnalyzeListingsReturn
    \/ GetTopDeals


Spec == Init /\ [][Next]_vars

(***************************************************************************)
(* Properties of the deal analyzer and of the offer calculator.            *)
(***************************************************************************)
OfferResultFields ==
    {"strategy", "target_metric", "target_value", "max_offer_price",
     "metrics_at_offer", "discount_from_list"}

StrategiesOf(rs) == [n \in DOMAIN rs |-> rs[n].strategy]

\* C1: analyze_listing, given a listing with price > 0, returns without raising
\* exactly one DealAnalysis per configured strategy, in the analyzers' order;
\* under the default configuration these are brrr, cash_flow and flip.
C1_AnalyzeListingOnePerStrategy ==
    (pc = "done" /\ entry = "analyze_listing" /\ Listing.price > 0) =>
        /\ exc = "none"
        /\ StrategiesOf(returned) = Analyzers(strategies)
        /\ strategies = DefaultStrategies =>
               StrategiesOf(returned) = <<"brrr", "cash_flow", "flip">>

\* C2: calculate_offer_price raises exactly when the strategy name is none of
\* brrr, cash_flow, flip; for each of these three names it returns an OfferResult
\* with every field populated.
C2_OfferRaisesIffUnknownStrategy ==
    (pc = "done" /\ entry = "calculate_offer_price") =>
        /\ (exc # "none") <=> (strategy \notin DealStrategy)
        /\ strategy \in DealStrategy =>
               /\ returned # None
               /\ DOMAIN returned[1] = OfferResultFields
               /\ returned[1].strategy = strategy

\* C3: under the default configuration calculate_all_offers returns one result
\* for each of cash_flow, brrr and flip, in the order the configuration lists them.
C3_AllOffersDefaultHasEveryStrategy ==
    (pc = "done" /\ entry = "calculate_all_offers" /\ strategies = DefaultStrategies) =>
        /\ exc = "none"
        /\ StrategiesOf(returned) = DefaultStrategies
        /\ {returned[n].strategy : n \in DOMAIN returned} = {"cash_flow", "brrr", "flip"}

\* What calculate_all_offers is to return: for each configured name whose own
\* calculate_offer_price call (default target) does not raise, that call's result.
RECURSIVE OffersAlone(_, _, _, _)
OffersAlone(strats, listing, rent, arv) ==
    IF strats = << >> THEN << >>
    ELSE LET one == calculate_offer_price(listing, Head(strats), None, None, rent, arv)
         IN  (IF one.exc = "none" THEN <<one.result[1]>> ELSE << >>)
             \o OffersAlone(Tail(strats), listing, rent, arv)

\* C4: calculate_all_offers never raises; a strategy whose computation raises
\* (an unrecognized name included) is left out, and every other configured
\* strategy's result is present, in order, equal to what calculate_offer_price
\* returns for that strategy alone.
C4_AllOffersSkipsFailures ==
    (pc = "done" /\ entry = "calculate_all_offers") =>
        /\ exc = "none"
        /\ returned = OffersAlone(strategies, Listing, rent_estimate, arv_estimate)

\* A call where some strategy failed after another one had succeeded, and one
\* succeeded after the failure.
C4_SomeSkippedSomeKept ==
    /\ pc = "done"
    /\ entry = "calculate_all_offers"
    /\ strategies = <<"cash_flow", "wholesale", "flip">>
    /\ StrategiesOf(returned) = <<"cash_flow", "flip">>

\* The deals the engine is to return when a failing analyzer is skipped.
RECURSIVE DealsOfOthers(_, _, _, _)
DealsOfOthers(ls, names, rent, arv) ==
    IF ls = << >> THEN << >>
    ELSE LET kept == SelectSeq(names, LAMBDA name : ~(name = "brrr" /\ BRRR_call_raises))
             one(name) ==
                 IF name = "brrr" THEN BRRR_analyze(Head(ls))
                 ELSE IF name = "cash_flow" THEN CF_analyze(Head(ls), rent)
                 ELSE Flip_analyze(Head(ls), arv)
         IN  [n \in DOMAIN kept |-> one(kept[n])]
             \o DealsOfOthers(Tail(ls), names, rent, arv)

\* C5: in analyze_listing, analyze_listings and get_top_deals the failure of one
\* strategy's analyzer on one listing does not abort the batch: the deals of the
\* other strategies and of the other listings are still returned.
C5_AnalyzerFailureDoesNotAbort ==
    (pc = "done" /\ entry \in EngineEntries) =>
        /\ exc = "none"
        /\ LET others == DealsOfOthers(listings, Analyzers(strategies),
                                       rent_estimate, arv_estimate)
           IN  returned = IF entry = "get_top_deals"
                          THEN TopDeals(others, min_score, limit)
                          ELSE others
\* Every DealAnalysis an analyzer has returned so far in this run.
ScoredDeals ==
    Range(deals) \cup Range(all_deals)
    \cup (IF pc = "done" /\ entry \in AnalyzerEntries \cup EngineEntries
          THEN Range(returned) ELSE {})

\* C6: for every listing, every analyzer returns a score between 0 and 100
\* inclusive, also when a metric is +inf and when metrics are negative.
C6_ScoreWithinRange ==
    \A d \in ScoredDeals : 0 <= d.score /\ d.score <= 100 * Scale

\* An analyzer has returned a deal with an infinite metric, and one with a
\* negative cash flow or profit.
C6_InfiniteAndNegativeScored ==
    /\ pc = "done"
    /\ entry \in AnalyzerEntries
    /\ \E d \in ScoredDeals :
          \/ d.strategy = "cash_flow" /\ d.metrics.dscr = Inf
                 /\ d.metrics.monthly_cash_flow < 0
          \/ d.strategy = "brrr" /\ d.metrics.cash_on_cash_return = Inf
          \/ d.strategy = "flip" /\ d.metrics.estimated_profit < 0

\* The pass criteria of a strategy, on the metrics a DealAnalysis carries.
CriteriaOnReturnedMetrics(d) ==
    IF d.strategy = "brrr"
    THEN /\ d.metrics.cash_on_cash_return >= brrr_min_cash_on_cash_return * Scale
         /\ d.metrics.monthly_cash_flow > 0
    ELSE IF d.strategy = "cash_flow"
    THEN /\ d.metrics.monthly_cash_flow >= Dollars(cf_min_monthly_cash_flow)
         /\ d.metrics.cap_rate >= cf_min_cap_rate * Scale
    ELSE /\ d.metrics.estimated_profit >= Dollars(flip_min_profit)
         /\ d.metrics.roi > 0

\* C7: meets_criteria of every DealAnalysis equals the strategy's predicate
\* evaluated on the rounded metrics the same DealAnalysis returns.
C7_MeetsCriteriaMatchesMetrics ==
    \A d \in ScoredDeals : d.meets_criteria = CriteriaOnReturnedMetrics(d)

\* A cash-flow deal that passes one of its two criteria only.
C7_OneCriterionOnly ==
    /\ pc = "done"
    /\ \E d \in ScoredDeals :
          /\ d.strategy = "cash_flow"
          /\ ~d.meets_criteria
          /\ \/ d.metrics.cap_rate >= cf_min_cap_rate * Scale
             \/ d.metrics.monthly_cash_flow >= Dollars(cf_min_monthly_cash_flow)

\* The target metric re-evaluated by the strategy's analyzer on the listing with
\* its price replaced by p.
MetricAtPrice(strat, p, name) ==
    IF strat = "cash_flow"
    THEN Get(CF_analyze(WithPrice(Listing, p), rent_estimate).metrics, name, 0)
    ELSE Get(BRRR_analyze(WithPrice(Listing, p)).metrics, name, 0)

\* C8: for the binary-search strategies (cash flow, BRRR) calculate_offer_price
\* returns an offer at which the re-evaluated target metric is at least the
\* target, up to the change of the metric over the price tolerance.
C8_SearchRoundTrip ==
    (pc = "done" /\ entry = "calculate_offer_price"
        /\ strategy \in {"cash_flow", "brrr"}) =>
        /\ exc = "none"
        /\ returned # None
        /\ LET r == returned[1]
               tol == Dollars(offer_price_tolerance)
               at == MetricAtPrice(strategy, r.max_offer_price, r.target_metric)
               below == MetricAtPrice(strategy, r.max_offer_price - tol, r.target_metric)
               above == MetricAtPrice(strategy, r.max_offer_price + tol, r.target_metric)
               change == Max(above - below, below - above)
           IN  at + change >= r.target_value

\* C9: for the flip strategy the estimated_profit in metrics_at_offer equals the
\* requested target_value exactly.
C9_FlipRoundTrip ==
    (pc = "done" /\ entry = "calculate_offer_price" /\ strategy = "flip") =>
        /\ exc = "none"
        /\ returned # None
        /\ returned[1].metrics_at_offer.estimated_profit = returned[1].target_value

\* C10: with listing, rent estimate and target metric fixed, the cash-flow
\* max_offer_price does not increase when target_value increases, whatever the
\* metric is.
C10_OfferNonIncreasingInTarget ==
    (pc = "done" /\ entry = "calculate_offer_price" /\ strategy = "cash_flow") =>
        \A v \in ValueSet \ {None} :
            LET mine == returned[1]
                other == calc_cashflow_offer(Listing, target_metric, v, rent_estimate)
            IN  /\ other.target_value >= mine.target_value =>
                       other.max_offer_price <= mine.max_offer_price
                /\ other.target_value <= mine.target_value =>
                       other.max_offer_price >= mine.max_offer_price

\* A cash-flow offer that a higher target lowers strictly, for a metric other
\* than the default one.
C10_HigherTargetLowersOffer ==
    /\ pc = "done"
    /\ entry = "calculate_offer_price"
    /\ strategy = "cash_flow"
    /\ target_metric = Some("cash_on_cash_return")
    /\ \E v \in ValueSet \ {None} :
          LET other == calc_cashflow_offer(Listing, target_metric, v, rent_estimate)
          IN  /\ other.target_value > returned[1].target_value
              /\ other.max_offer_price < returned[1].max_offer_price
\* Target profits a flip offer is compared under: the requested ones, one that
\* is no whole number of dollars and one no listing here can reach.
FlipTargetSet ==
    (ValueSet \ {None}) \cup {Some(Dollars(100) + Scale \div 2), Some(Dollars(250000))}

AbsDiff(a, b) == IF a >= b THEN a - b ELSE b - a

\* C11 as stated: with listing and arv_estimate fixed, for any two target profits
\* t1, t2 the flip offers satisfy max_offer(t2) - max_offer(t1) = -(t2 - t1).
C11_FlipOfferLinearInTarget ==
    (pc = "done" /\ entry = "calculate_offer_price" /\ strategy = "flip") =>
        \A v \in FlipTargetSet :
            LET mine == returned[1]
                other == calc_flip_offer(Listing, target_metric, v, arv_estimate)
            IN  other.max_offer_price - mine.max_offer_price
                    = 0 - (other.target_value - mine.target_value)

\* C11 amended: a higher target profit never gives a higher flip offer, and for
\* two target profits whose offers are both above the floor 0,
\* max_offer(t2) - max_offer(t1) = -(t2 - t1) up to the rounding of each
\* max_offer_price to a whole dollar.
C11_FlipOfferLinearAboveFloor ==
    (pc = "done" /\ entry = "calculate_offer_price" /\ strategy = "flip") =>
        \A v \in FlipTargetSet :
            LET mine == returned[1]
                other == calc_flip_offer(Listing, target_metric, v, arv_estimate)
            IN  /\ other.target_value >= mine.target_value =>
                       other.max_offer_price <= mine.max_offer_price
                /\ (other.max_offer_price > 0 /\ mine.max_offer_price > 0) =>
                       AbsDiff(mine.max_offer_price - other.max_offer_price,
                               other.target_value - mine.target_value) <= Scale

\* A flip offer above the floor, next to a lower positive offer for a higher
\* target and a floored offer for a still higher one.
C11_OffersAboveAndAtFloor ==
    /\ pc = "done"
    /\ entry = "calculate_offer_price"
    /\ strategy = "flip"
    /\ returned[1].max_offer_price > 0
    /\ \E v \in FlipTargetSet :
          LET other == calc_flip_offer(Listing, target_metric, v, arv_estimate)
          IN  /\ other.target_value > returned[1].target_value
              /\ other.max_offer_price > 0
              /\ other.max_offer_price < returned[1].max_offer_price
    /\ \E v \in FlipTargetSet :
          calc_flip_offer(Listing, target_metric, v, arv_estimate).max_offer_price = 0
\* C12: for the Cash-Flow and BRRR offer search and every listing with
\* price > 0, the returned max_offer_price lies in the search window:
\* 1000 <= max_offer_price <= 1.5 x listing.price.
C12_OfferWithinSearchWindow ==
    (pc = "done" /\ entry = "calculate_offer_price"
        /\ strategy \in {"cash_flow", "brrr"} /\ Listing.price > 0) =>
        /\ exc = "none"
        /\ returned # None
        /\ Dollars(offer_search_floor) <= returned[1].max_offer_price
        /\ 2 * returned[1].max_offer_price <= 3 * Listing.price

\* The metric the running search inverts, evaluated at price p.
SearchMetricAt(p) ==
    IF pc = "cf_loop"
    THEN Get(CF_analyze(WithPrice(Listing, p), rent_estimate).metrics, metric, 0)
    ELSE Get(BRRR_analyze(WithPrice(Listing, p)).metrics, metric, 0)

\* C13: at every iteration of the Cash-Flow/BRRR binary search, low is the
\* initial floor 1000 or a price whose metric was found >= target, high is the
\* initial ceiling 1.5 x list price or a price whose metric was found < target,
\* best_price = low, and low <= high.
C13_SearchLoopInvariant ==
    pc \in {"cf_loop", "brrr_loop"} =>
        /\ \/ search.low = Dollars(offer_search_floor)
           \/ SearchMetricAt(search.low) >= target
        /\ \/ search.high = SearchStart(Listing).high
           \/ SearchMetricAt(search.high) < target
        /\ search.best_price = search.low
        /\ search.low <= search.high

\* C14: the Cash-Flow/BRRR binary search terminates: the loop evaluates the
\* analyzer at most max_iterations times, each evaluation halves high - low,
\* the loop is left with high - low < price_tolerance or after exactly
\* max_iterations iterations, and one more evaluation at best_price gives
\* metrics_at_offer.
C14_SearchTerminates ==
    /\ pc \in {"cf_loop", "brrr_loop"} => search.iters <= offer_max_iterations
    /\ (pc = "done" /\ entry = "calculate_offer_price"
           /\ strategy \in {"cash_flow", "brrr"}) =>
          /\ exc = "none"
          /\ returned # None
          /\ \/ search.high - search.low < Dollars(offer_price_tolerance)
             \/ search.iters = offer_max_iterations
          /\ returned[1].metrics_at_offer =
                IF strategy = "cash_flow"
                THEN CF_analyze(WithPrice(Listing, search.best_price),
                                rent_estimate).metrics
                ELSE BRRR_analyze(WithPrice(Listing, search.best_price)).metrics
\* C15: get_top_deals returns a top-k selection: every returned deal has
\* score >= min_score and meets its criteria, scores do not increase along the
\* result, the result has at most limit elements, and no qualifying deal left
\* out scores strictly above a returned one (also under the default
\* configuration).
C15_TopDealsIsTopK ==
    (pc = "done" /\ entry = "get_top_deals") =>
        /\ exc = "none"
        /\ \A n \in DOMAIN returned :
              returned[n].score >= min_score /\ returned[n].meets_criteria
        /\ \A n \in DOMAIN returned : n > 1 => returned[n - 1].score >= returned[n].score
        /\ Len(returned) <= limit
        /\ \A d \in Range(all_deals) :
              (d.score >= min_score /\ d.meets_criteria) =>
                  \/ \E n \in DOMAIN returned : returned[n] = d
                  \/ \A n \in DOMAIN returned : returned[n].score >= d.score

\* C16: with every other input fixed, a higher purchase price never raises the
\* Cash-Flow monthly_cash_flow (rent estimate supplied or None) nor the BRRR
\* cash_on_cash_return.
C16_MetricNonIncreasingInPrice ==
    /\ (pc = "done" /\ entry = "CashFlowAnalyzer.analyze") =>
          \A p \in AnalyzerPriceSet :
              Dollars(p) >= Listing.price =>
                  CF_analyze(WithPrice(Listing, Dollars(p)), rent_estimate)
                        .metrics.monthly_cash_flow
                      <= returned[1].metrics.monthly_cash_flow
    /\ (pc = "done" /\ entry = "BRRRAnalyzer.analyze" /\ exc = "none") =>
          \A p \in AnalyzerPriceSet :
              Dollars(p) >= Listing.price =>
                  BRRR_analyze(WithPrice(Listing, Dollars(p)))
                        .metrics.cash_on_cash_return
                      <= returned[1].metrics.cash_on_cash_return
\* C17 as stated: in Cash-Flow metrics dscr is +infinity exactly when the annual
\* debt service is zero, grm is +infinity exactly when the annual rent is zero,
\* and in every other case dscr and grm are positive finite numbers.
C17_DscrGrmInfiniteOrPositive ==
    (pc = "done" /\ entry = "CashFlowAnalyzer.analyze") =>
        LET m == returned[1].metrics
        IN  /\ (m.dscr = Inf) <=> (m.monthly_mortgage = 0)
            /\ (m.grm = Inf) <=> (m.monthly_rent_estimate = 0)
            /\ m.dscr # Inf => m.dscr > 0
            /\ m.grm # Inf => m.grm > 0

\* C17 amended: dscr is +infinity exactly when the annual debt service is zero
\* and grm exactly when the annual rent is zero; in every other case both are
\* finite, grm is >= 0, and dscr has the sign of the net operating income, so
\* it is negative when noi is negative.
C17_DscrGrmInfiniteOrSigned ==
    (pc = "done" /\ entry = "CashFlowAnalyzer.analyze") =>
        LET m == returned[1].metrics
        IN  /\ (m.dscr = Inf) <=> (m.monthly_mortgage = 0)
            /\ (m.grm = Inf) <=> (m.monthly_rent_estimate = 0)
            /\ m.dscr # Inf =>
                  /\ m.noi > 0 => m.dscr >= 0
                  /\ m.noi < 0 => m.dscr <= 0
            /\ m.grm # Inf => m.grm >= 0

\* A cash-flow analysis with a debt service and no rent: grm infinite, dscr
\* finite and negative.
C17_NoRentButDebt ==
    /\ pc = "done"
    /\ entry = "CashFlowAnalyzer.analyze"
    /\ returned[1].metrics.grm = Inf
    /\ returned[1].metrics.dscr # Inf
    /\ returned[1].metrics.dscr < 0
\* C18 as stated: in BRRR metrics, whenever total_investment <= refinance_amount,
\* cash_left_in_deal = 0, cash_on_cash_return is +infinity, and meets_criteria
\* is true whenever monthly_cash_flow > 0.
C18_FullRefinanceInfiniteReturn ==
    (pc = "done" /\ entry = "BRRRAnalyzer.analyze" /\ exc = "none"
        /\ BRRR_total_investment(Listing) <= BRRR_refinance_amount(Listing)) =>
        LET m == returned[1].metrics
        IN  /\ m.cash_left_in_deal = 0
            /\ m.cash_on_cash_return = Inf
            /\ m.monthly_cash_flow > 0 => returned[1].meets_criteria

\* C18 amended: whenever total_investment <= refinance_amount,
\* cash_left_in_deal = 0, cash_on_cash_return is +infinity when the annual cash
\* flow is positive and 0 when it is not, and meets_criteria is true whenever
\* min_cash_on_cash_return is finite and monthly_cash_flow > 0.
C18_FullRefinanceReturnBySign ==
    (pc = "done" /\ entry = "BRRRAnalyzer.analyze" /\ exc = "none"
        /\ BRRR_total_investment(Listing) <= BRRR_refinance_amount(Listing)) =>
        LET m == returned[1].metrics
        IN  /\ m.cash_left_in_deal = 0
            /\ m.annual_cash_flow > 0 => m.cash_on_cash_return = Inf
            /\ m.annual_cash_flow <= 0 => m.cash_on_cash_return = 0
            /\ m.monthly_cash_flow > 0 => returned[1].meets_criteria

\* A BRRR analysis whose refinance returns the whole investment and whose cash
\* flow is positive.
C18_FullRefinancePositiveFlow ==
    /\ pc = "done"
    /\ entry = "BRRRAnalyzer.analyze"
    /\ exc = "none"
    /\ BRRR_total_investment(Listing) <= BRRR_refinance_amount(Listing)
    /\ returned[1].metrics.monthly_cash_flow > 0
    /\ returned[1].metrics.cash_on_cash_return = Inf
\* C19: the BRRR analyzer accepts an optional rent estimate and ARV estimate:
\* with arv_estimate supplied, estimated_arv equals it and refinance_amount is
\* arv_estimate x refinance_ltv; with None, estimated_arv is
\* price / max_purchase_pct_of_arv; and a BRRR offer computed with supplied
\* estimates is returned, not raised.
C19_BRRRAcceptsEstimates ==
    /\ (pc = "done" /\ entry = "BRRRAnalyzer.analyze") =>
           /\ exc = "none"
           /\ returned # None
           /\ LET m == returned[1].metrics
              IN  /\ arv_estimate # None =>
                         /\ m.estimated_arv = arv_estimate[1]
                         /\ m.refinance_amount =
                                Round2(MulDiv(arv_estimate[1], brrr_refinance_ltv, RateDen))
                  /\ arv_estimate = None =>
                         m.estimated_arv = Round2(BRRR_estimated_arv(Listing))
    /\ (pc = "done" /\ entry = "calculate_offer_price" /\ strategy = "brrr") =>
           /\ exc = "none"
           /\ returned # None
CashFlowMetricFields ==
    {"purchase_price", "down_payment", "loan_amount", "monthly_mortgage",
     "monthly_rent_estimate", "effective_rent", "monthly_expenses",
     "monthly_cash_flow", "annual_cash_flow", "cap_rate", "cash_on_cash_return",
     "noi", "dscr", "grm"}
BRRRMetricFields ==
    {"purchase_price", "estimated_arv", "rehab_cost", "total_investment",
     "holding_costs", "refinance_amount", "cash_left_in_deal",
     "monthly_rent_estimate", "monthly_expenses", "monthly_cash_flow",
     "annual_cash_flow", "cash_on_cash_return", "equity_captured"}
FlipMetricFields ==
    {"purchase_price", "estimated_arv", "rehab_cost", "holding_costs",
     "selling_costs", "total_cost", "estimated_profit", "roi", "profit_per_month"}
DealAnalysisFields == {"listing", "strategy", "score", "metrics", "meets_criteria"}

\* The fallbacks of a cash-flow metrics record computed for a listing.
CashFlowFallbacks(m) ==
    /\ DOMAIN m = CashFlowMetricFields
    /\ m.purchase_price = 0 => m.cap_rate = 0 /\ m.cash_on_cash_return = 0
    /\ m.monthly_mortgage = 0 => m.dscr = Inf
    /\ m.monthly_rent_estimate = 0 => m.grm = Inf

\* The fallbacks of a flip metrics record computed for a listing.
FlipFallbacks(listing, m) ==
    /\ DOMAIN m = FlipMetricFields
    /\ listing.sqft = 0 => m.rehab_cost = Dollars(flip_default_rehab_cost)
    /\ m.purchase_price + m.rehab_cost = 0 => m.roi = 0

\* The fallbacks of a BRRR metrics record computed for a listing.
BRRRFallbacks(listing, m) ==
    /\ DOMAIN m = BRRRMetricFields
    /\ listing.sqft = 0 => m.rehab_cost = Dollars(brrr_default_rehab_cost)
    /\ m.cash_left_in_deal = 0 => m.cash_on_cash_return \in {0, Inf}

C21_MonthlyPaymentTotal ==
    (pc = "done" /\ entry \in PaymentEntries) =>
        /\ exc = "none"
        /\ returned # None
        /\ (loan.principal <= 0 \/ loan.annual_rate <= 0) => returned[1] = 0
        /\ (loan.principal > 0 /\ loan.annual_rate > 0) => returned[1] > 0
        /\ CF_monthly_payment(loan.principal, loan.annual_rate, loan.years)
               = BRRR_monthly_payment(loan.principal, loan.annual_rate, loan.years)
\* C22: with target_value None the offer calculator uses the configured default
\* of the requested metric: Cash-Flow 200 for monthly_cash_flow and 8 only when
\* cash_on_cash_return is requested, BRRR 10, Flip 30,000; the OfferResult
\* echoes the metric name and the target value used, and an explicit
\* target_value (0 included) is never replaced by a default.
C22_DefaultTargets ==
    (pc = "done" /\ entry = "calculate_offer_price" /\ strategy \in DealStrategy) =>
        /\ exc = "none"
        /\ returned # None
        /\ LET r == returned[1]
               requested ==
                   OrDefault(target_metric,
                             CASE strategy = "cash_flow" -> "monthly_cash_flow"
                               [] strategy = "brrr" -> "cash_on_cash_return"
                               [] strategy = "flip" -> "estimated_profit")
           IN  /\ r.target_metric = requested
               /\ target_value # None => r.target_value = target_value[1]
               /\ target_value = None =>
                      CASE strategy = "cash_flow" ->
                               /\ requested = "monthly_cash_flow" =>
                                      r.target_value = Dollars(offer_cash_flow_target_monthly)
                               /\ (r.target_value = offer_cash_flow_target_coc * Scale)
                                      <=> (requested = "cash_on_cash_return")
                        [] strategy = "brrr" ->
                               r.target_value = offer_brrr_target_coc * Scale
                        [] strategy = "flip" ->
                               r.target_value = Dollars(offer_flip_target_profit)
\* C23 as stated: for every OfferResult and every listing with price > 0,
\* discount_from_list is within 1 percentage point of
\* (listing.price - max_offer_price) / listing.price x 100, and it is negative
\* exactly when the offer exceeds list price.
C23_DiscountMatchesOffer ==
    (pc = "done" /\ entry = "calculate_offer_price" /\ returned # None
        /\ Listing.price > 0) =>
        LET r == returned[1]
        IN  /\ AbsDiff(r.discount_from_list,
                       Percent(Listing.price - r.max_offer_price, Listing.price)) <= Scale
            /\ (r.discount_from_list < 0) <=> (r.max_offer_price > Listing.price)

\* C23 amended: for every listing with price >= 100 the discount is within 1
\* percentage point of the percentage taken at max_offer_price; for every
\* listing with price > 0 it is negative only when the unrounded offer
\* (metrics_at_offer.purchase_price) exceeds list price, and always when that
\* offer exceeds list price by more than 0.05% of it.
C23_DiscountMatchesUnroundedOffer ==
    (pc = "done" /\ entry = "calculate_offer_price" /\ returned # None
        /\ Listing.price > 0) =>
        LET r == returned[1]
            unrounded == r.metrics_at_offer.purchase_price
        IN  /\ Listing.price >= Dollars(100) =>
                   AbsDiff(r.discount_from_list,
                           Percent(Listing.price - r.max_offer_price, Listing.price)) <= Scale
            /\ r.discount_from_list < 0 => unrounded > Listing.price
            /\ unrounded - Listing.price > Listing.price \div 2000 =>
                   r.discount_from_list < 0

\* An offer above list price by less than 0.05% of it, with a discount of zero.
C23_OfferJustAboveList ==
    /\ pc = "done"
    /\ entry = "calculate_offer_price"
    /\ returned # None
    /\ Listing.price > 0
    /\ returned[1].max_offer_price > Listing.price
    /\ returned[1].discount_from_list = 0
\* C24: for the Cash-Flow strategy with the default target
\* (monthly_cash_flow >= 200) and no rent estimate, for every listing the
\* max_offer_price is at or below the list price and discount_from_list >= 0.
C24_DefaultCashFlowOfferBelowList ==
    (pc = "done" /\ entry = "calculate_offer_price" /\ strategy = "cash_flow"
        /\ target_metric = None /\ target_value = None /\ rent_estimate = None) =>
        /\ returned # None
        /\ returned[1].max_offer_price <= Listing.price
        /\ returned[1].discount_from_list >= 0
\* C25: for the Cash-Flow offer with target metric monthly_cash_flow, with
\* listing and target fixed, max_offer_price is non-decreasing in the supplied
\* rent_estimate: a higher rent estimate never gives a lower max offer.
C25_OfferNonDecreasingInRent ==
    (pc = "done" /\ entry = "calculate_offer_price" /\ strategy = "cash_flow"
        /\ target_metric \in {None, Some("monthly_cash_flow")}
        /\ rent_estimate # None) =>
        \A r \in RentSet \ {None} :
            LET mine == returned[1]
                other == calc_cashflow_offer(Listing, target_metric, target_value, r)
            IN  /\ mine.target_metric = "monthly_cash_flow"
                /\ r[1] >= rent_estimate[1] =>
                       other.max_offer_price >= mine.max_offer_price
                /\ r[1] <= rent_estimate[1] =>
                       other.max_offer_price <= mine.max_offer_price

\* A cash-flow offer that a higher rent estimate raises strictly.
C25_HigherRentRaisesOffer ==
    /\ pc = "done"
    /\ entry = "calculate_offer_price"
    /\ strategy = "cash_flow"
    /\ target_metric \in {None, Some("monthly_cash_flow")}
    /\ rent_estimate # None
    /\ \E r \in RentSet \ {None} :
          LET other == calc_cashflow_offer(Listing, target_metric, target_value, r)
          IN  /\ r[1] > rent_estimate[1]
              /\ other.max_offer_price > returned[1].max_offer_price
\* The points of the first tier <<threshold, points>> that x reaches, 0 if none.
TierAtLeast(x, tiers) ==
    LET hit == {n \in DOMAIN tiers : x >= tiers[n][1]}
    IN  IF hit = {} THEN 0
        ELSE tiers[CHOOSE n \in hit : \A o \in hit : n <= o][2]

\* The points of the first tier <<threshold, points>> that x stays within.
TierAtMost(x, tiers) ==
    LET hit == {n \in DOMAIN tiers : x <= tiers[n][1]}
    IN  IF hit = {} THEN 0
        ELSE tiers[CHOOSE n \in hit : \A o \in hit : n <= o][2]

\* The five cash-flow tier tables, thresholds in mills; "> 0" is one cent.
CashFlowTierSum(m) ==
    TierAtLeast(m.monthly_cash_flow,
                <<<<500000, 35>>, <<300000, 25>>, <<200000, 18>>, <<100000, 10>>, <<10, 5>>>>)
    + TierAtLeast(m.cap_rate, <<<<10000, 25>>, <<8000, 20>>, <<6000, 15>>, <<4000, 8>>>>)
    + TierAtLeast(m.cash_on_cash_return,
                  <<<<15000, 20>>, <<10000, 15>>, <<8000, 10>>, <<5000, 5>>>>)
    + TierAtLeast(m.dscr, <<<<1500, 10>>, <<1250, 7>>, <<1000, 3>>>>)
    + TierAtMost(m.grm, <<<<8000, 10>>, <<10000, 7>>, <<12000, 4>>>>)

\* C26: the Cash-Flow score is min(100, sum of the five tier functions) of the
\* returned metrics; an infinite dscr earns the top dscr tier and an infinite
\* grm earns no grm points.
C26_CashFlowScoreIsTierSum ==
    (pc = "done" /\ entry = "CashFlowAnalyzer.analyze") =>
        LET m == returned[1].metrics
        IN  /\ exc = "none"
            /\ returned[1].score = Min(100, CashFlowTierSum(m)) * Scale
            /\ m.dscr = Inf =>
                   TierAtLeast(m.dscr, <<<<1500, 10>>, <<1250, 7>>, <<1000, 3>>>>) = 10
            /\ m.grm = Inf =>
                   TierAtMost(m.grm, <<<<8000, 10>>, <<10000, 7>>, <<12000, 4>>>>) = 0

\* A cash-flow analysis with an infinite dscr and an infinite grm whose score is
\* the 10 points of the dscr tier.
C26_InfiniteRatiosScored ==
    /\ pc = "done"
    /\ entry = "CashFlowAnalyzer.analyze"
    /\ returned[1].metrics.dscr = Inf
    /\ returned[1].metrics.grm = Inf
    /\ returned[1].score = 10 * Scale
\* 25 x (1 - cash_left_in_deal / total_investment) clamped to [0, 25], in mills
\* of a point; 0 when total_investment is 0.
CapitalRecoveryPoints(m) ==
    IF m.total_investment = 0 THEN 0
    ELSE Max(0, Min(25 * Scale,
                    25 * Scale - Percent(m.cash_left_in_deal, m.total_investment) \div 4))

\* The sum of the four BRRR score parts, in mills of a point.
BRRRScoreSum(m) ==
    (TierAtLeast(m.cash_on_cash_return,
                 <<<<25000, 40>>, <<15000, 30>>, <<10000, 20>>, <<5000, 10>>>>)
     + TierAtLeast(m.monthly_cash_flow,
                   <<<<500000, 20>>, <<300000, 15>>, <<200000, 10>>, <<100000, 5>>>>)
     + TierAtLeast(m.equity_captured,
                   <<<<50000000, 15>>, <<30000000, 10>>, <<15000000, 5>>>>)) * Scale
    + CapitalRecoveryPoints(m)

\* C27 as stated: the BRRR score equals min(100, sum) of the cash-on-cash tier,
\* the capital recovery clamped to [0, 25], the cash-flow tier and the
\* equity-captured tier; an infinite cash_on_cash_return earns the top tier.
C27_BRRRScoreIsSum ==
    (pc = "done" /\ entry = "BRRRAnalyzer.analyze" /\ exc = "none") =>
        LET m == returned[1].metrics
        IN  /\ returned[1].score = Min(100 * Scale, BRRRScoreSum(m))
            /\ m.cash_on_cash_return = Inf =>
                   TierAtLeast(m.cash_on_cash_return,
                               <<<<25000, 40>>, <<15000, 30>>, <<10000, 20>>, <<5000, 10>>>>) = 40

\* C27 amended: the BRRR score equals min(100, sum rounded to one decimal) of
\* the same four parts; an infinite cash_on_cash_return earns the top tier.
C27_BRRRScoreIsRoundedSum ==
    (pc = "done" /\ entry = "BRRRAnalyzer.analyze" /\ exc = "none") =>
        LET m == returned[1].metrics
        IN  /\ returned[1].score = Min(100 * Scale, Round1(BRRRScoreSum(m)))
            /\ m.cash_on_cash_return = Inf =>
                   TierAtLeast(m.cash_on_cash_return,
                               <<<<25000, 40>>, <<15000, 30>>, <<10000, 20>>, <<5000, 10>>>>) = 40

\* A BRRR analysis whose sum of parts is no multiple of 0.1 and whose score is
\* that sum rounded to one decimal.
C27_FractionalSumRounded ==
    /\ pc = "done"
    /\ entry = "BRRRAnalyzer.analyze"
    /\ exc = "none"
    /\ BRRRScoreSum(returned[1].metrics) % 100 # 0
    /\ returned[1].score = Round1(BRRRScoreSum(returned[1].metrics))
    /\ returned[1].score > 0

\* An offer's metrics are the analyzer's output for the caller's listing with
\* the price replaced by the unrounded offer, which max_offer_price rounds.
MetricsAtPriceCopy(r) ==
    LET copy == [Listing EXCEPT !.price = r.metrics_at_offer.purchase_price]
    IN  /\ Round0(r.metrics_at_offer.purchase_price) = r.max_offer_price
        /\ r.strategy = "cash_flow" =>
               r.metrics_at_offer = CF_analyze(copy, rent_estimate).metrics
        /\ r.strategy = "flip" =>
               r.metrics_at_offer = Flip_analyze(copy, arv_estimate).metrics

\* C28: offer computation analyses price-substituted copies only: the caller's
\* listing is never changed, and when calculate_offer_price or
\* calculate_all_offers has returned, every metrics_at_offer is the analyzer's
\* output for a copy differing from the listing in the price alone, taken at the
\* unrounded best price, so round(metrics_at_offer.purchase_price) =
\* max_offer_price.
C28_OffersLeaveListingAlone ==
    /\ [][listings' = listings]_vars
    /\ [](/\ (pc = "done" /\ entry = "calculate_offer_price" /\ returned # None) =>
                 MetricsAtPriceCopy(returned[1])
          /\ (pc = "done" /\ entry = "calculate_all_offers") =>
                 \A n \in DOMAIN returned : MetricsAtPriceCopy(returned[n]))

\* A returned cash-flow offer found by the search strictly inside its window,
\* for a listing with a supplied tax, at a price that is no whole dollar.
C28_OfferAtFractionalPrice ==
    /\ pc = "done"
    /\ entry = "calculate_offer_price"
    /\ strategy = "cash_flow"
    /\ returned # None
    /\ Listing.tax_annual # 0
    /\ returned[1].max_offer_price > Dollars(offer_search_floor)
    /\ returned[1].metrics_at_offer.purchase_price # returned[1].max_offer_price
StrategyRank(name) ==
    CASE name = "brrr" -> 1 [] name = "cash_flow" -> 2 [] name = "flip" -> 3

Qualifies(d) == d.score >= min_score /\ d.meets_criteria

\* all_deals lists the deals listing by listing, and within a listing in the
\* order brrr, cash_flow, flip.
ProducedInOrder ==
    LET per == Cardinality(Range(strategies) \cap DealStrategy)
    IN  /\ Len(all_deals) = Len(listings) * per
        /\ \A n \in DOMAIN all_deals :
              /\ all_deals[n].listing = listings[(n - 1) \div per + 1]
              /\ (n > 1 /\ (n - 2) \div per = (n - 1) \div per) =>
                     StrategyRank(all_deals[n - 1].strategy)
                         < StrategyRank(all_deals[n].strategy)

\* The positions in all_deals of the returned deals, in a choice that keeps
\* tied deals in their input order and leaves no tied qualifying deal out in
\* front of a returned one.
StablePositions(f) ==
    /\ \A n \in DOMAIN returned : all_deals[f[n]] = returned[n]
    /\ \A n, o \in DOMAIN returned : n < o => f[n] # f[o]
    /\ \A n, o \in DOMAIN returned :
          (n < o /\ returned[n].score = returned[o].score) => f[n] < f[o]
    /\ \A q \in DOMAIN all_deals :
          (Qualifies(all_deals[q]) /\ q \notin {f[n] : n \in DOMAIN returned}) =>
              \A n \in DOMAIN returned :
                  returned[n].score = all_deals[q].score => f[n] < q

\* C29: the tie-break of get_top_deals is stable by input order: qualifying
\* deals of equal score appear in the result in the order analyze_listings
\* produced them (listing order, then brrr, cash_flow, flip), and truncation to
\* limit keeps the earlier one.
C29_TopDealsTieBreakStable ==
    (pc = "done" /\ entry = "get_top_deals" /\ exc = "none") =>
        /\ ProducedInOrder
        /\ \E f \in [DOMAIN returned -> DOMAIN all_deals] : StablePositions(f)

\* Two different qualifying deals of equal score, the earlier one returned and
\* the later one cut off by the limit.
C29_TieCutByLimit ==
    /\ pc = "done"
    /\ entry = "get_top_deals"
    /\ exc = "none"
    /\ Len(returned) = 1
    /\ \E n, o \in DOMAIN all_deals :
          /\ n < o
          /\ all_deals[n] # all_deals[o]
          /\ all_deals[n] = returned[1]
          /\ Qualifies(all_deals[o])
          /\ all_deals[o].score = returned[1].score
\* ARV - rehab - holding - selling - target_value, floored at 0, for the
\* caller's listing.
FlipClosedForm(target_profit) ==
    LET estimated_arv == Flip_offer_arv(Listing, arv_estimate)
        rehab_cost ==
            IF Listing.sqft # 0 THEN Listing.sqft * Dollars(flip_rehab_per_sqft)
            ELSE Dollars(flip_default_rehab_cost)
        holding_costs == Dollars(flip_monthly_holding_cost) * flip_project_months
        selling_costs == MulDiv(estimated_arv, flip_selling_cost_pct, RateDen)
    IN  Max(estimated_arv - rehab_cost - holding_costs - selling_costs - target_profit, 0)

====
